---- MODULE Spec2Model ----
(***************************************************************************)
(* GitHerd: the synchronization engine of one repository tab (RepoTab).    *)
(*                                                                         *)
(* A commit is <<author, file it changes>>; a ref is the set of commits    *)
(* reachable from its tip, so a ref moves to a descendant exactly when its *)
(* set grows.  The remote, the local remote-tracking refs and local main   *)
(* are kept apart, so that fetch, push (never forced: git rejects a        *)
(* non-fast-forward), pull --ff-only and merge act as git does.            *)
(*                                                                         *)
(* Threads (timer, "sync now", merge, startup scan) take one step at a     *)
(* time: the timer's read of the polling flag, the lock acquisition with   *)
(* the fetch, the decision with its commands, the release.  Any command    *)
(* may exit non-zero for an outside reason, up to MaxFaults per step.      *)
(*                                                                         *)
(* Spec is a tab on a small repository with agents, operator and other     *)
(* clones committing while the threads run; SpecCycle is one timer cycle,  *)
(* the merge and the scan on a repository drawn as a whole.                *)
(***************************************************************************)
EXTENDS Integers, Sequences, FiniteSets, TLC

\* ---------------------------------------------------------------- bounds
MaxCommits == 2      \* commits made while the tab runs (agents, operator, others)
MaxFaults == 1       \* commands that fail for outside reasons, per step
MaxBranches == 3     \* tracked branches of a repository drawn as a whole
MaxTracked == 2      \* tracked branches of the repository the threads share
MaxCycles == 2       \* cycles started on the repository the threads share
MaxDrawnCycles == 1  \* cycles started on a repository drawn as a whole
MaxTimedCycles == 2  \* cycles started while the clock is watched
MaxLate == 2         \* intervals a timer can be behind its wake target
MaxInterval == 2     \* the longest interval_seconds configured, in intervals
MaxConfCycles == 1   \* cycles started while the configuration is changed
MaxAppCycles == 1    \* cycles started while the window closes or restarts

\* ------------------------------------------------------------ vocabulary
RemoteTok == "origin/"
PrefixTok == "claude/"
Letters == <<"a", "b", "c", "d", "e">>
\* The tracked branch names, in the order for-each-ref lists them.
AllNames == [i \in 1..MaxBranches |-> <<PrefixTok, Letters[i]>>]
\* A branch whose name holds the remote's name again: claude/origin/a.
NestedName == <<PrefixTok, RemoteTok, Letters[1]>>
\* Every branch name, in the order for-each-ref lists them.
ListedNames == AllNames \o <<NestedName>>
Files == {"x.py", "y.py"}
NoName == <<>>

\* The timer threads that can be alive at once, and the first of them.
Timers == {"t1", "t2"}
OneTimer == {"t1"}
\* interval_seconds: the clock counts in polling intervals.
Interval == 1
Threads == Timers \cup {"m1", "g1", "s1"}
\* The conflict detector has not been called on its own.
\* No cycle has ended yet.
NoCycle == [tag |-> "", pending |-> <<>>, info |-> "", clean |-> FALSE]
NoProbe == [branches |-> <<>>, failed |-> {}, disjoint |-> TRUE, called |-> FALSE]
\* githerd.toml without a [sync] interval_seconds, and no readable file.
NoKey == <<"nokey", 0>>
NoFile == <<"nofile", 0>>
Holds(n) == <<"interval_seconds", n>>
\* The interval_seconds a file can hold and the operator can enter: the
\* default, longer ones, none and a negative one.
Intervals == -1..MaxInterval
TomlValues == {Holds(n) : n \in Intervals} \cup {NoKey, NoFile}
\* What the operator types in the dialog's interval field: a number, or
\* text that is none.
Typed(n) == <<"number", n>>
NotANumber == <<"text", 0>>
IntervalEntries == {Typed(n) : n \in Intervals} \cup {NotANumber}

VARIABLES
    rMain,      \* remote: main
    rBr,        \* remote: tracked branches, name -> commits
    tMain,      \* local remote-tracking ref <remote>/<main>
    tBr,        \* local remote-tracking refs <remote>/<name>
    lMain,      \* local main (checked out in the working directory)
    made,       \* commits made so far
    lock,       \* self.lock: the thread holding it, or "" when free
    polling,    \* self.polling
    tag,        \* self.state_var
    info,       \* self.info_var: the summary the current or last cycle,
                \* merge or scan wrote, or "Stale" for an older one left
                \* on display
    pending,    \* self.pending_branches
    lcc,        \* self.last_commit_count
    btn,        \* the merge button is shown
    cmds,       \* commands run by the cycle or merge in progress, in order
    beep,       \* the cycle in progress raised the new-commit notification
    pc,         \* thread -> position
    cycles,     \* cycles started so far
    halted,     \* history: a cycle has failed on its fetch, its pull or a
                \* push since polling was last switched on
    wait,       \* timer -> next_tick - time.time(): the time left to its
                \* wake target, negative when the timer is late
    toml,       \* githerd.toml: its interval_seconds, NoKey when the file
                \* has none, NoFile when there is no readable file
    interval,   \* self.interval
    appop,      \* what the application window is doing with the tab
    probe,      \* the conflict detector called on its own: the candidate
                \* list, the lookups that failed and its answer
    ended       \* history: how the last cycle that ended ended

gitvars == <<rMain, rBr, tMain, tBr, lMain, made>>
tabvars == <<polling, tag, info, pending, lcc, btn, cmds, beep, cycles,
            halted>>
sessvars == <<tabvars, wait>>
appvars == <<toml, interval, appop, probe, ended>>
vars == <<rMain, rBr, tMain, tBr, lMain, made,
          lock, polling, tag, info, pending, lcc, btn, cmds, beep, pc, cycles,
          halted, wait, toml, interval, appop, probe, ended>>

\* ------------------------------------------------------------- utilities
Card(S) == Cardinality(S)
Info(k, n, b) == [k |-> k, n |-> n, b |-> b]
Cmd(c, a, ok) == [c |-> c, a |-> a, ok |-> ok]
MainArg == <<"main">>
\* The file a commit changes ("" for a merge commit).
FileOf(c) == c[2]
IsMerge(c) == c[1] = "merge"
\* The commit main stands on when the tab is opened.
Seed == <<"seed", "">>
\* The files an agent works on: the second agent on any file, the others on
\* one file each.
AgentFiles(n) ==
    IF n = AllNames[1] THEN {"x.py"}
    ELSE IF n = AllNames[2] THEN Files
    ELSE {"y.py"}
\* The merge commit made when k merge commits exist already.
MergeCommit(k) == <<"merge", "", k + 1>>

\* The state a handler works on, as one record, with the handler's locals
\* (exc: an exception is propagating; ok: a helper's return value); a
\* handler is a function from this record to this record.
Cur ==
    [rMain |-> rMain, rBr |-> rBr, tMain |-> tMain, tBr |-> tBr,
     lMain |-> lMain, made |-> made,
     polling |-> polling, tag |-> tag, info |-> info, pending |-> pending,
     lcc |-> lcc, btn |-> btn, cmds |-> cmds, beep |-> beep,
     exc |-> FALSE, ok |-> TRUE,
     ahead_branches |-> <<>>, diverged_branches |-> <<>>, new |-> FALSE]

Log(m, c) == [m EXCEPT !.cmds = Append(@, c)]

\* A function extended or overwritten at one point.
Put(f, k, v) == [x \in (DOMAIN f) \cup {k} |-> IF x = k THEN v ELSE f[x]]
\* ------------------------------------------------------------ git helpers
\* A fault is a command that exits non-zero for an outside reason (network,
\* authentication, an unknown ref): <<command, branch name or NoName>>.
\* The faults drawn for a handler are those of commands it can run: on the
\* tracked and the pending branches.
FaultOps(m) ==
    {<<k, NoName>> : k \in {"lma", "list", "list_push", "list_end",
                             "push_main", "pull"}}
    \cup {<<k, n>> : k \in {"ahead", "behind", "behind2", "files", "push",
                            "merge"},
                     n \in (DOMAIN m.tBr) \cup {m.pending[i] : i \in 1..Len(m.pending)}}
RECURSIVE FaultSetsUpTo(_, _)
FaultSetsUpTo(ops, k) ==
    IF k = 0 THEN {{}}
    ELSE LET P == FaultSetsUpTo(ops, k - 1)
         IN  P \cup {S \cup {f} : S \in P, f \in ops}
FaultSets(m) == FaultSetsUpTo(FaultOps(m), MaxFaults)
\* The startup scan runs lookups only.
ScanFaultSets(m) ==
    FaultSetsUpTo({f \in FaultOps(m) :
                      f[1] \in {"lma", "list", "ahead", "behind", "behind2",
                                "files"}}, MaxFaults)

\* b.replace(f"{remote}/", ""): every occurrence of the remote token goes.
ShortName(ref) == SelectSeq(ref, LAMBDA t : t # RemoteTok)
\* The remote-tracking ref <remote>/<name>, as for-each-ref prints it.
RefOf(n) == <<RemoteTok>> \o n
\* The tracked branch a ref names (the ref without its remote part).
NameOf(ref) == Tail(ref)

\* commits_ahead: rev-list --count base..tip; -1 stands for the raise.
commits_ahead(base, tip, failed) == IF failed THEN -1 ELSE Card(tip \ base)

\* Variant (sensitivity of C5): behind is never seen.
commits_behind_blind(base, tip, failed) == 0

\* Variant (sensitivity of C27): a failed lookup reads as "behind".
commits_behind_assumed(base, tip, failed) ==
    IF failed THEN 1 ELSE Card(base \ tip)

\* commits_behind: rev-list --count tip..base; a failure is read as 0.
commits_behind(base, tip, failed) == IF failed THEN 0 ELSE Card(base \ tip)

\* local_main_ahead: commits_ahead(<remote>/<main>, main), any raise -> 0.
local_main_ahead(m, failed) ==
    LET n == commits_ahead(m.tMain, m.lMain, failed)
    IN  IF n < 0 THEN 0 ELSE n

\* get_tracked_branches: the refs under refs/remotes/<remote>/<prefix>, in
\* name order (the raise on failure is the caller's fault test).
get_tracked_branches(m) ==
    LET names == SelectSeq(ListedNames,
                     LAMBDA n : n \in DOMAIN m.tBr /\ n[1] = PrefixTok)
    IN  [i \in 1..Len(names) |-> RefOf(names[i])]

\* get_changed_files: diff --name-only base...tip; a failure (also an
\* unknown ref) is read as the empty set.
\* Variant (sensitivity of C26): a failed lookup reads as every file.
get_changed_files_closed(m, ref, failed) ==
    IF failed \/ NameOf(ref) \notin DOMAIN m.tBr
    THEN Files
    ELSE {FileOf(c) : c \in m.tBr[NameOf(ref)] \ m.tMain} \ {""}

get_changed_files(m, ref, failed) ==
    IF failed \/ NameOf(ref) \notin DOMAIN m.tBr
    THEN {}
    ELSE {FileOf(c) : c \in m.tBr[NameOf(ref)] \ m.tMain} \ {""}

\* Variant (sensitivity of C25): only neighbours in the list are compared.
are_files_disjoint_neighbours(m, branches, F) ==
    LET all_files == [i \in 1..Len(branches) |->
            get_changed_files(m, RefOf(branches[i]),
                              <<"files", branches[i]>> \in F)]
    IN  \A i \in 1..(Len(branches) - 1) :
            all_files[i] \cap all_files[i + 1] = {}

\* are_files_disjoint: no two candidates share a changed file.
are_files_disjoint(m, branches, F) ==
    LET all_files == [i \in 1..Len(branches) |->
            get_changed_files(m, RefOf(branches[i]),
                              <<"files", branches[i]>> \in F)]
    IN  \A i \in 1..Len(branches) : \A j \in (i + 1)..Len(branches) :
            all_files[i] \cap all_files[j] = {}

\* ----------------------------------------------------------- git commands
\* git fetch <remote>: the tracking refs take the remote's values.
GitFetch(m) ==
    [m EXCEPT !.tMain = m.rMain,
              !.tBr = [n \in (DOMAIN m.rBr) \cup (DOMAIN m.tBr) |->
                          IF n \in DOMAIN m.rBr THEN m.rBr[n] ELSE m.tBr[n]]]

\* git push <remote> <main>, not forced: accepted when the remote's main is
\* an ancestor of local main.
PushMainOk(m, failed) == ~failed /\ m.rMain \subseteq m.lMain
GitPushMain(m) == [m EXCEPT !.rMain = m.lMain, !.tMain = m.lMain]

\* Variant (sensitivity of C2): the push is forced.
PushBranchForced(m, target, failed) == ~failed

\* git push <remote> <main>:<target>, not forced: accepted when the target
\* does not exist yet or is an ancestor of local main.
PushBranchOk(m, target, failed) ==
    /\ ~failed
    /\ target \in DOMAIN m.rBr => m.rBr[target] \subseteq m.lMain
GitPushBranch(m, target) ==
    [m EXCEPT !.rBr = Put(m.rBr, target, m.lMain),
              !.tBr = Put(m.tBr, target, m.lMain)]

\* git pull --ff-only <remote> <leader>: fetches the branch, then moves
\* local main to it when that is a fast-forward.
PullOk(m, leader, failed) ==
    ~failed /\ leader \in DOMAIN m.rBr /\ m.lMain \subseteq m.rBr[leader]
GitPullFF(m, leader) ==
    [m EXCEPT !.lMain = m.rBr[leader],
              !.tBr = Put(m.tBr, leader, m.rBr[leader])]

\* git merge <remote>/<branch> -m ...: merges the tracking ref into local
\* main: nothing to do, a fast-forward, or a merge commit.  Whether a true
\* merge stops on a conflict depends on the lines changed, which a commit
\* does not record: a conflict is one of the failures drawn for the step.
MergeOk(m, branch, failed) == ~failed /\ branch \in DOMAIN m.tBr
\* Variant (sensitivity of C15): the merge leaves local main as it was.
GitMergeNothing(m, branch) == m
GitMerge(m, branch) ==
    IF m.tBr[branch] \subseteq m.lMain THEN m
    ELSE IF m.lMain \subseteq m.tBr[branch]
    THEN [m EXCEPT !.lMain = m.tBr[branch]]
    ELSE LET c == MergeCommit(Card({x \in m.made : IsMerge(x)}))
         IN  [m EXCEPT !.lMain = m.lMain \cup m.tBr[branch] \cup {c},
                       !.made = @ \cup {c}]
\* ------------------------------------------------------------- the engine
stop_polling(m) == [m EXCEPT !.polling = FALSE]
\* Variant (sensitivity of C6): the leader's count is kept.
keep_leader(m, leader) == m
\* self.last_commit_count[leader] = 0
forget_leader(m, leader) == [m EXCEPT !.lcc = Put(@, leader, 0)]
\* Variant (sensitivity of C8): the memory is kept.
keep_memory(m) == m
\* self.last_commit_count.clear()
clear_memory(m) == [m EXCEPT !.lcc = <<>>]
Failed(F, k, n) == <<k, n>> \in F
Pairs1(s) == [i \in 1..Len(s) |-> s[i][1]]

\* Variant (sensitivity of C11): the fan-out goes on after a failed push.
RECURSIVE FanOutCarriesOn(_, _, _, _)
FanOutCarriesOn(m, branches, i, F) ==
    IF i > Len(branches) THEN m
    ELSE LET target == ShortName(branches[i])
             good == PushBranchOk(m, target, Failed(F, "push", target))
             m1 == Log(m, Cmd("push", target, good))
         IN  IF ~good
             THEN FanOutCarriesOn(
                    stop_polling([m1 EXCEPT !.tag = "PushFailed",
                                     !.info = Info("PushFailed", 0, target),
                                     !.ok = FALSE]), branches, i + 1, F)
             ELSE FanOutCarriesOn(GitPushBranch(m1, target), branches,
                                  i + 1, F)

\* Variant (sensitivity of C7): no fan-out.
FanOutNone(m, branches, i, F) == [m EXCEPT !.ok = TRUE]

\* push_main_and_branches, the loop "for b in branches": one push
\* <main>:<target> per listed branch, stopping at the first that fails.
RECURSIVE FanOut(_, _, _, _)
FanOut(m, branches, i, F) ==
    IF i > Len(branches) THEN [m EXCEPT !.ok = TRUE]
    ELSE LET target == ShortName(branches[i])
             good == PushBranchOk(m, target, Failed(F, "push", target))
             m1 == Log(m, Cmd("push", target, good))
         IN  IF ~good
             THEN stop_polling([m1 EXCEPT !.tag = "PushFailed",
                                   !.info = Info("PushFailed", 0, target),
                                   !.ok = FALSE])
             ELSE FanOut(GitPushBranch(m1, target), branches, i + 1, F)

\* push_main_and_branches: push main, list the tracked branches, fan out.
push_main_and_branches(m, F) ==
    LET good == PushMainOk(m, Failed(F, "push_main", NoName))
        m1 == Log(m, Cmd("push_main", MainArg, good))
    IN  IF ~good
        THEN stop_polling([m1 EXCEPT !.tag = "Error", !.ok = FALSE])
        ELSE LET listed == ~Failed(F, "list_push", NoName)
                 m2 == Log(GitPushMain(m1), Cmd("list", NoName, listed))
             IN  IF ~listed THEN [m2 EXCEPT !.exc = TRUE, !.ok = FALSE]
                 ELSE FanOut(m2, get_tracked_branches(m2), 1, F)

\* Variant (sensitivity of C30): the pending list is not emptied.
SyncFetchKeepsPending(m, fetched) ==
    LET m1 == [m EXCEPT !.tag = "Syncing", !.btn = FALSE,
                        !.info = Info("Stale", 0, NoName),
                        !.cmds = <<Cmd("fetch", NoName, fetched)>>,
                        !.beep = FALSE]
    IN  IF ~fetched THEN stop_polling([m1 EXCEPT !.tag = "Error", !.ok = FALSE])
        ELSE GitFetch(m1)

\* _do_sync, up to the fetch: "Sync…", the merge button hidden, the pending
\* list emptied, then git fetch; a failed fetch ends the cycle.
SyncFetch(m, fetched) ==
    LET m1 == [m EXCEPT !.tag = "Syncing", !.btn = FALSE, !.pending = <<>>,
                        !.info = Info("Stale", 0, NoName),
                        !.cmds = <<Cmd("fetch", NoName, fetched)>>,
                        !.beep = FALSE]
    IN  IF ~fetched THEN stop_polling([m1 EXCEPT !.tag = "Error", !.ok = FALSE])
        ELSE GitFetch(m1)

\* _do_sync, local main ahead: push main and fan out, without classifying.
SyncLocalAhead(m, local_ahead, F) ==
    LET m1 == push_main_and_branches(m, F)
    IN  IF m1.ok /\ ~m1.exc
        THEN [m1 EXCEPT !.tag = "SyncOK",
                        !.info = Info("PushLocal", local_ahead, NoName)]
        ELSE m1

\* _do_sync, the loop "for b in branches": ahead and behind of each branch,
\* the two buckets, the new-commit test and the ahead-count memory.
RECURSIVE Classify(_, _, _, _)
Classify(m, branches, i, F) ==
    IF i > Len(branches) THEN m
    ELSE LET b == branches[i]
             n == NameOf(b)
             ahead == commits_ahead(m.tMain, m.tBr[n], Failed(F, "ahead", n))
             behind == commits_behind(m.tMain, m.tBr[n], Failed(F, "behind", n))
             short_name == ShortName(b)
             prev == IF short_name \in DOMAIN m.lcc THEN m.lcc[short_name] ELSE 0
             m1 == Log(Log(m, Cmd("ahead", n, TRUE)),
                       Cmd("behind", n, ~Failed(F, "behind", n)))
             m2 == IF ahead > 0
                   THEN [m1 EXCEPT
                           !.diverged_branches =
                               IF behind > 0
                               THEN Append(@, <<short_name, ahead, behind>>) ELSE @,
                           !.ahead_branches =
                               IF behind > 0 THEN @
                               ELSE Append(@, <<short_name, ahead>>),
                           !.new = @ \/ ahead > prev,
                           !.lcc = Put(@, short_name, ahead)]
                   ELSE m1
         IN  IF ahead < 0
             THEN [Log(m, Cmd("ahead", n, FALSE)) EXCEPT !.exc = TRUE]
             ELSE Classify(m2, branches, i + 1, F)

\* Variant (sensitivity of C9): every listed branch is taken as behind.
BehindBranchesAll(m, branches, i, F) ==
    [j \in 1..Len(branches) |-> <<ShortName(branches[j]), 1>>]

\* _do_sync, no branch ahead: the branches with behind > 0, in listing order.
RECURSIVE BehindBranches(_, _, _, _)
BehindBranches(m, branches, i, F) ==
    IF i > Len(branches) THEN <<>>
    ELSE LET n == NameOf(branches[i])
             behind == commits_behind(m.tMain, m.tBr[n], Failed(F, "behind2", n))
             rest == BehindBranches(m, branches, i + 1, F)
         IN  IF behind > 0 THEN <<<<ShortName(branches[i]), behind>>>> \o rest
             ELSE rest

\* _do_sync, the loop "for branch_name, _ in behind_branches": one push
\* <main>:<branch> per branch that is behind, stopping at the first failure.
RECURSIVE FastSync(_, _, _, _)
FastSync(m, behind_branches, i, F) ==
    IF i > Len(behind_branches)
    THEN [m EXCEPT !.tag = "SyncOK",
                   !.info = Info("Behind", Len(behind_branches), NoName)]
    ELSE LET branch_name == behind_branches[i][1]
             good == PushBranchOk(m, branch_name, Failed(F, "push", branch_name))
             m1 == Log(m, Cmd("push", branch_name, good))
         IN  IF ~good
             THEN stop_polling([m1 EXCEPT !.tag = "Error", !.ok = FALSE])
             ELSE FastSync(GitPushBranch(m1, branch_name), behind_branches,
                           i + 1, F)

\* _do_sync, total_problematic == 0: fast-sync the branches that are
\* behind, or Idle with the ahead-count memory cleared.
SyncNothingAhead(m, branches, F) ==
    LET behind_branches == BehindBranches(m, branches, 1, F)
        RECURSIVE LogBehind(_, _)
        LogBehind(mm, i) ==
            IF i > Len(branches) THEN mm
            ELSE LogBehind(Log(mm, Cmd("behind2", NameOf(branches[i]),
                               ~Failed(F, "behind2", NameOf(branches[i])))),
                           i + 1)
        m1 == LogBehind(m, 1)
    IN  IF Len(behind_branches) > 0
        THEN FastSync(m1, behind_branches, 1, F)
        ELSE clear_memory([m1 EXCEPT !.tag = "Idle",
                                     !.info = Info("AllSynced", 0, NoName)])

\* Variant (sensitivity of C12): only the ahead-clean branches are stored.
SyncAmbiguousCleanOnly(m, F) ==
    stop_polling([m EXCEPT !.pending = Pairs1(m.ahead_branches),
                           !.tag = "MergeAvailable", !.btn = TRUE])

\* Variant (sensitivity of C4): the merge is offered, polling goes on.
SyncAmbiguousPollingOn(m, F) ==
    [m EXCEPT !.tag = "MergeAvailable", !.btn = TRUE]

\* _do_sync, a diverged branch or several branches ahead: the implicated
\* branches become the pending list; disjoint files offer the merge,
\* common files ask for the operator; polling stops either way.
SyncAmbiguous(m, F) ==
    LET all_names == Pairs1(m.diverged_branches) \o Pairs1(m.ahead_branches)
        RECURSIVE LogFiles(_, _)
        LogFiles(mm, i) ==
            IF i > Len(all_names) THEN mm
            ELSE LogFiles(Log(mm, Cmd("files", all_names[i],
                              ~Failed(F, "files", all_names[i]))), i + 1)
        m1 == LogFiles([m EXCEPT !.pending = all_names], 1)
        disjoint == are_files_disjoint(m, all_names, F)
    IN  stop_polling(
            IF disjoint
            THEN [m1 EXCEPT !.tag = "MergeAvailable",
                            !.info = Info("Disjoint", 0, NoName),
                            !.btn = TRUE]
            ELSE [m1 EXCEPT !.tag = "HumanRequired",
                            !.info = Info("Conflict", 0, NoName)])

\* _do_sync, exactly one branch ahead and none diverged: pull it with
\* --ff-only, push main and fan out, forget the leader's ahead count.
SyncLeader(m, F) ==
    LET leader == m.ahead_branches[1][1]
        good == PullOk(m, leader, Failed(F, "pull", NoName))
        m1 == Log(m, Cmd("pull", leader, good))
    IN  IF ~good
        THEN stop_polling([m1 EXCEPT !.tag = "Error",
                               !.info = Info("PullFailed", 0, NoName),
                               !.ok = FALSE])
        ELSE LET m2 == push_main_and_branches(GitPullFF(m1, leader), F)
             IN  IF ~m2.ok \/ m2.exc THEN m2
                 ELSE LET m3 == [forget_leader(m2, leader)
                                    EXCEPT !.tag = "SyncOK"]
                          listed == ~Failed(F, "list_end", NoName)
                          m4 == Log(m3, Cmd("list", NoName, listed))
                      IN  IF ~listed THEN [m4 EXCEPT !.exc = TRUE]
                          ELSE [m4 EXCEPT !.info =
                                  Info("Pulled",
                                       Len(get_tracked_branches(m4)) - 1,
                                       leader)]

\* _do_sync, after a fetch that succeeded.
SyncDecide(m, F) ==
    LET local_ahead == local_main_ahead(m, Failed(F, "lma", NoName))
        m0 == Log(m, Cmd("lma", NoName, ~Failed(F, "lma", NoName)))
    IN  IF local_ahead > 0 THEN SyncLocalAhead(m0, local_ahead, F)
        ELSE LET listed == ~Failed(F, "list", NoName)
                 m1 == Log(m0, Cmd("list", NoName, listed))
                 branches == get_tracked_branches(m1)
                 m2 == Classify(m1, branches, 1, F)
                 m3 == [m2 EXCEPT !.beep = m2.new]
                 total_problematic ==
                     Len(m3.ahead_branches) + Len(m3.diverged_branches)
             IN  IF ~listed THEN [m1 EXCEPT !.exc = TRUE]
                 ELSE IF m2.exc THEN m2
                 ELSE IF total_problematic = 0
                 THEN SyncNothingAhead(m3, branches, F)
                 ELSE IF Len(m3.diverged_branches) > 0
                         \/ Len(m3.ahead_branches) > 1
                 THEN SyncAmbiguous(m3, F)
                 ELSE SyncLeader(m3, F)
\* _do_merge_impl, the loop "for branch in branches": merge each pending
\* branch's tracking ref; the first failure aborts the merge and stops.
RECURSIVE MergeLoop(_, _, _, _)
MergeLoop(m, branches, i, F) ==
    IF i > Len(branches) THEN [m EXCEPT !.ok = TRUE]
    ELSE LET branch == branches[i]
             good == MergeOk(m, branch, Failed(F, "merge", branch))
             m1 == Log(m, Cmd("merge", branch, good))
         IN  IF ~good
             THEN stop_polling(
                    [Log(m1, Cmd("merge_abort", NoName, TRUE))
                       EXCEPT !.tag = "MergeFailed",
                              !.info = Info("MergeFailed", 0, branch),
                              !.ok = FALSE])
             ELSE MergeLoop(GitMerge(m1, branch), branches, i + 1, F)

\* _do_merge_impl: nothing pending -> nothing; else merge the pending
\* branches, push main and fan out, clear the pending list and the memory.
do_merge_impl(m, F) ==
    IF Len(m.pending) = 0 THEN [m EXCEPT !.cmds = <<>>]
    ELSE LET branches == m.pending
             m1 == [m EXCEPT !.tag = "Merging", !.btn = FALSE, !.cmds = <<>>,
                             !.info = Info("Stale", 0, NoName)]
             m2 == MergeLoop(m1, branches, 1, F)
             m3 == push_main_and_branches(m2, F)
         IN  IF ~m2.ok THEN m2
             ELSE IF ~m3.ok \/ m3.exc THEN m3
             ELSE [clear_memory(m3)
                     EXCEPT !.pending = <<>>, !.tag = "MergeOK",
                            !.info = Info("Merged", Len(branches), NoName)]

\* Variant (sensitivity of C33): the scan acts on what it finds, as a cycle
\* does.
initial_scan_acting(m, F) == SyncDecide(m, F)

\* initial_scan, after its fetch (whose exit status it does not read): the
\* same classification, reported only; any exception ends in "ERREUR".
initial_scan(m, F) ==
    LET local_ahead == local_main_ahead(m, Failed(F, "lma", NoName))
        branches == get_tracked_branches(m)
        c == Classify(m, branches, 1, F)
        m2 == [m EXCEPT !.lcc = c.lcc]
        ahead_list == Pairs1(c.ahead_branches)
        diverged_list == c.diverged_branches
        total == Len(ahead_list) + Len(diverged_list)
        behind_list == BehindBranches(m, branches, 1, F)
        all_names == Pairs1(diverged_list) \o ahead_list
        caught == [tag |-> "Error", info |-> Info("Exception", 0, NoName)]
    IN  IF local_ahead > 0
        THEN [m EXCEPT !.tag = "LocalAhead",
                       !.info = Info("ToPush", local_ahead, NoName)]
        ELSE IF Failed(F, "list", NoName)
        THEN [m EXCEPT !.tag = caught.tag, !.info = caught.info]
        ELSE IF c.exc
        THEN [m2 EXCEPT !.tag = caught.tag, !.info = caught.info]
        ELSE IF total = 0
        THEN IF Len(behind_list) > 0
             THEN [m2 EXCEPT !.tag = "BehindSync",
                             !.info = Info("ToSync", Len(behind_list), NoName)]
             ELSE [m2 EXCEPT !.tag = "Idle",
                             !.info = Info("AllSynced", 0, NoName)]
        ELSE IF Len(diverged_list) = 0 /\ Len(ahead_list) = 1
        THEN [m2 EXCEPT !.tag = "OneAhead",
                        !.info = Info("Ready", 0, ahead_list[1])]
        ELSE IF are_files_disjoint(m, all_names, F)
        THEN [m2 EXCEPT !.pending = all_names, !.tag = "MergeAvailable",
                        !.info = Info("Disjoint", 0, NoName), !.btn = TRUE]
        ELSE [m2 EXCEPT !.pending = all_names, !.tag = "HumanRequired",
                        !.info = Info("Implicated", 0, NoName)]

\* ------------------------------------------------------------------ Init
\* The session of a tab after construction; the startup scan is started.
\* The tab as constructed on a repository without a githerd.toml, in a
\* running application.
InitApp ==
    /\ toml = NoFile
    /\ interval = Interval
    /\ appop = "run"
    /\ probe = NoProbe
    /\ ended = NoCycle

InitSession ==
    /\ lock = ""
    /\ polling = FALSE
    /\ tag = "Starting"
    /\ info = Info("Analysing", 0, NoName)
    /\ pending = <<>>
    /\ lcc = <<>>
    /\ btn = FALSE
    /\ cmds = <<>>
    /\ beep = FALSE
    /\ pc = [t \in Threads |-> IF t = "s1" THEN "scan" ELSE "dead"]
    /\ cycles = 0
    /\ halted = FALSE
    /\ wait = [t \in Timers |-> 0]
    /\ InitApp

\* A tab opened on a repository in which the remote and the clone agree and
\* the tracked branches stand at main's tip.
Init ==
    /\ rMain = {Seed} /\ tMain = {Seed} /\ lMain = {Seed}
    /\ rBr = [n \in {AllNames[i] : i \in 1..MaxTracked} |-> {Seed}]
    /\ tBr = rBr
    /\ made = {}
    /\ InitSession

\* A tab opened on any repository, with polling started at once (the
\* auto-start setting): main with or without local commits, or behind the
\* remote; the first k tracked branches, each standing on main's tip or
\* behind it, with any of its agent's commits.
LocalMains ==
    {{}, {Seed}, {Seed, <<"local", "x.py">>},
     {Seed, <<"local", "x.py">>, <<"local", "y.py">>}}
InitCycle ==
    /\ rMain = {Seed} /\ tMain = {Seed}
    /\ lMain \in LocalMains
    /\ \E k \in 0..MaxBranches :
       \E base \in [{AllNames[i] : i \in 1..k} -> {{}, {Seed}}] :
       \E own \in [{AllNames[i] : i \in 1..k} -> SUBSET Files] :
          /\ \A n \in DOMAIN own : own[n] \subseteq AgentFiles(n)
          /\ rBr = [n \in DOMAIN base |->
                       base[n] \cup {<<n[2], f>> : f \in own[n]}]
          /\ tBr = rBr
    /\ made = lMain \cup UNION {rBr[n] : n \in DOMAIN rBr}
    /\ lock = ""
    /\ polling = TRUE
    /\ tag = "Starting"
    /\ info = Info("Analysing", 0, NoName)
    /\ pending = <<>>
    /\ lcc = <<>>
    /\ btn = FALSE
    /\ cmds = <<>>
    /\ beep = FALSE
    /\ pc = [t \in Threads |->
               IF t = "s1" THEN "scan" ELSE IF t = "t1" THEN "tick" ELSE "dead"]
    /\ cycles = 0
    /\ halted = FALSE
    /\ wait = [t \in Timers |-> 0]
    /\ InitApp

\* A tab opened, polling on, on a repository with a tracked branch named
\* claude/origin/a, alone or next to claude/a.
InitNames ==
    /\ rMain = {Seed} /\ tMain = {Seed}
    /\ lMain \in LocalMains
    /\ \E names \in {{NestedName}, {AllNames[1], NestedName}} :
       \E base \in [names -> {{}, {Seed}}] :
       \E own \in [names -> SUBSET Files] :
          /\ \A n \in names : own[n] \subseteq AgentFiles(n)
          /\ rBr = [n \in names |->
                       base[n] \cup {<<n[Len(n) - 1], f>> : f \in own[n]}]
          /\ tBr = rBr
    /\ made = lMain \cup UNION {rBr[n] : n \in DOMAIN rBr}
    /\ lock = ""
    /\ polling = TRUE
    /\ tag = "Starting"
    /\ info = Info("Analysing", 0, NoName)
    /\ pending = <<>>
    /\ lcc = <<>>
    /\ btn = FALSE
    /\ cmds = <<>>
    /\ beep = FALSE
    /\ pc = [t \in Threads |->
               IF t = "s1" THEN "scan" ELSE IF t = "t1" THEN "tick" ELSE "dead"]
    /\ cycles = 0
    /\ halted = FALSE
    /\ wait = [t \in Timers |-> 0]
    /\ InitApp

\* The handler's result becomes the next state.
Becomes(m) ==
    /\ rMain' = m.rMain /\ rBr' = m.rBr /\ tMain' = m.tMain /\ tBr' = m.tBr
    /\ lMain' = m.lMain /\ made' = m.made
    /\ polling' = m.polling /\ tag' = m.tag /\ info' = m.info
    /\ pending' = m.pending /\ lcc' = m.lcc /\ btn' = m.btn
    /\ cmds' = m.cmds /\ beep' = m.beep

\* ------------------------------------------------------- the environment
\* Commits made outside the engine, bounded.
Outside == {c \in made : ~IsMerge(c)}
New(c) == c \notin made /\ Card(Outside) < MaxCommits

\* An agent pushes a new commit to its tracked branch.
AgentCommit ==
    /\ \E n \in DOMAIN rBr :
       \E f \in AgentFiles(n) :
          LET c == <<n[2], f>>
          IN  /\ New(c)
              /\ rBr' = [rBr EXCEPT ![n] = @ \cup {c}]
              /\ made' = made \cup {c}
    /\ UNCHANGED <<rMain, tMain, tBr, lMain, lock, sessvars, pc, appvars>>

\* The operator commits on local main in the working directory.
LocalCommit ==
    /\ \E f \in Files :
          LET c == <<"local", f>>
          IN  /\ New(c)
              /\ lMain' = lMain \cup {c}
              /\ made' = made \cup {c}
    /\ UNCHANGED <<rMain, rBr, tMain, tBr, lock, sessvars, pc, appvars>>

\* Another clone pushes a new commit to the remote's main.
RemoteMainCommit ==
    /\ \E f \in {"x.py"} :
          LET c == <<"other", f>>
          IN  /\ New(c)
              /\ rMain' = rMain \cup {c}
              /\ made' = made \cup {c}
    /\ UNCHANGED <<rBr, tMain, tBr, lMain, lock, sessvars, pc, appvars>>

\* ----------------------------------------------------------- the threads
\* The tab is in the window and the window takes the operator's clicks: it
\* is neither closed, hidden or rebuilt, nor behind the restart dialog, nor
\* is the window's thread inside wait_for_polling_thread.
TabShown == appop \in {"run", "rebuild", "restart"}
IsTimer(t) == t \in Timers

\* toggle_polling: flip the flag; switched on, start a polling_loop thread
\* (one of `slots`, the threads that can be alive at once), whose first
\* wake target is now.
toggle_polling(slots) ==
    /\ TabShown
    /\ polling' = ~polling
    /\ IF ~polling
       THEN \E t \in slots :
               /\ pc[t] = "dead"
               /\ pc' = [pc EXCEPT ![t] = "tick"]
               /\ wait' = [wait EXCEPT ![t] = 0]
       ELSE pc' = pc /\ wait' = wait
    /\ halted' = (polling /\ halted)
    /\ UNCHANGED <<gitvars, lock, tag, info, pending, lcc, btn, cmds, beep,
                   cycles, appvars>>

\* Variant (sensitivity of C18): the thread does not sleep.
NotSlept(t) == wait

\* time.sleep(max(0, next_tick - time.time())): the thread resumes once
\* its wake target is reached, or at once when it is late; the time slept
\* has passed for every live timer.
Slept(t) ==
    LET sleep_time == IF wait[t] > 0 THEN wait[t] ELSE 0
    IN  [u \in Timers |->
            IF pc[u] = "dead" \/ wait[u] - sleep_time < -MaxLate
            THEN wait[u] ELSE wait[u] - sleep_time]

\* polling_loop, "while self.polling" read as false: the thread ends.
TimerExit(t) ==
    /\ pc[t] = "tick" /\ ~polling
    /\ pc' = [pc EXCEPT ![t] = "dead"]
    /\ wait' = [Slept(t) EXCEPT ![t] = 0]
    /\ UNCHANGED <<gitvars, lock, tabvars, appvars>>

\* Variant (sensitivity of C20): the loop goes on whatever the flag.
TimerLoopBlind(t) ==
    /\ pc[t] = "tick"
    /\ pc' = [pc EXCEPT ![t] = "call"]
    /\ wait' = Slept(t)
    /\ UNCHANGED <<gitvars, lock, tabvars, appvars>>

\* polling_loop, "while self.polling" read as true: the loop body is
\* entered and sync is about to be called.
TimerLoop(t) ==
    /\ pc[t] = "tick" /\ polling
    /\ pc' = [pc EXCEPT ![t] = "call"]
    /\ wait' = Slept(t)
    /\ UNCHANGED <<gitvars, lock, tabvars, appvars>>

\* Variant (sensitivity of C1): the lock is taken whoever holds it.
AcquireAnyway(t) == lock' = t

\* lock.acquire(blocking=False)
Acquire(t) == lock = "" /\ lock' = t

\* Variant (sensitivity of C22): the loop takes the interval the tab holds.
TabInterval == interval

\* polling_loop, "cfg = load_repo_config(...); interval = cfg.get("sync",
\* {}).get("interval_seconds", self.interval)": the file's value; without
\* the key the tab's; without a readable file the default configuration's.
LoadedInterval ==
    IF toml = NoFile THEN Interval
    ELSE IF toml = NoKey THEN interval
    ELSE toml[2]

\* next_tick += interval (lateness is counted up to MaxLate).
NextTarget(w) ==
    IF w + LoadedInterval < -MaxLate THEN -MaxLate ELSE w + LoadedInterval

\* polling_loop calls sync and the lock is held: the tick is skipped; the
\* loop reloads the interval and sleeps to the next target.
TimerSkip(t) ==
    /\ pc[t] = "call" /\ lock # ""
    /\ pc' = [pc EXCEPT ![t] = "tick"]
    /\ wait' = [wait EXCEPT ![t] = NextTarget(@)]
    /\ UNCHANGED <<gitvars, lock, tabvars, appvars>>

\* The record of a cycle that ends with the session m: its state, pending
\* list and summary, and whether every command that failed in it was
\* refused by git itself (clean) and not for an outside reason.
Ended(m, clean) ==
    [tag |-> m.tag, pending |-> m.pending, info |-> m.info.k, clean |-> clean]

\* sync under the lock, up to the fetch: lock.acquire(blocking=False)
\* succeeded, _do_sync runs its fetch.
SyncStart(t, limit) ==
    /\ Acquire(t)
    /\ cycles < limit
    /\ cycles' = cycles + 1
    /\ \E fetched \in BOOLEAN :
       \E m \in {SyncFetch(Cur, fetched)} :
          /\ Becomes(m)
          /\ pc' = [pc EXCEPT ![t] = IF fetched THEN "decide" ELSE "release"]
          /\ halted' = (halted \/ ~fetched)
          /\ ended' = IF fetched THEN ended ELSE Ended(m, FALSE)
    /\ UNCHANGED <<wait, toml, interval, appop, probe>>

\* polling_loop calls sync and the lock is free: the cycle starts.
TimerSync(t, limit) ==
    /\ pc[t] = "call"
    /\ SyncStart(t, limit)

\* manual_sync, the one-shot thread's sync finds the lock held: the request
\* is dropped.
SyncDropped(t) ==
    /\ pc[t] = "dead" /\ lock # ""
    /\ UNCHANGED vars

\* manual_sync, the one-shot thread's sync finds the lock free: the cycle
\* starts.
ManualSync(t) ==
    /\ pc[t] = "dead"
    /\ SyncStart(t, MaxCycles)

\* _do_sync, second part: the decision and its commands.
DoSyncDecide(t) ==
    /\ pc[t] = "decide"
    /\ \E sound \in {SyncDecide(Cur, {}).cmds} :
       \E F \in FaultSets(Cur) :
       \E m \in {SyncDecide(Cur, F)} :
          /\ Becomes(m)
          /\ pc' = [pc EXCEPT ![t] = IF m.exc THEN "release_exc" ELSE "release"]
          /\ halted' = (halted \/ \E i \in 1..Len(m.cmds) :
                                     /\ m.cmds[i].c \in {"pull", "push", "push_main"}
                                     /\ ~m.cmds[i].ok)
          /\ ended' = Ended(m, m.cmds = sound)
    /\ UNCHANGED <<lock, cycles, wait, toml, interval, appop, probe>>

\* Variant (sensitivity of C21): the next wake target is taken from the
\* current time, not from the previous target.
ReleaseFromNow(t) ==
    /\ pc[t] \in {"release", "release_exc"}
    /\ lock' = ""
    /\ pc' = [pc EXCEPT ![t] = IF IsTimer(t) /\ pc[t] = "release"
                                THEN "tick" ELSE "dead"]
    /\ cmds' = <<>> /\ beep' = FALSE
    /\ wait' = IF ~IsTimer(t) THEN wait
               ELSE [wait EXCEPT ![t] = IF pc[t] = "release"
                                        THEN Interval ELSE 0]
    /\ UNCHANGED <<gitvars, polling, tag, info, pending, lcc, btn, cycles,
                   halted, appvars>>

\* sync / _do_merge, "finally: self.lock.release()".  A timer goes back to
\* its loop; an exception ends the thread; a one-shot thread ends.
Release(t) ==
    /\ pc[t] \in {"release", "release_exc"}
    /\ lock' = ""
    /\ pc' = [pc EXCEPT ![t] = IF IsTimer(t) /\ pc[t] = "release"
                                THEN "tick" ELSE "dead"]
    /\ cmds' = <<>> /\ beep' = FALSE
    /\ wait' = IF ~IsTimer(t) THEN wait
               ELSE [wait EXCEPT ![t] = IF pc[t] = "release"
                                        THEN NextTarget(@) ELSE 0]
    /\ UNCHANGED <<gitvars, polling, tag, info, pending, lcc, btn, cycles,
                   halted, appvars>>

\* manual_merge: the merge button starts a one-shot thread running _do_merge.
manual_merge ==
    /\ btn
    /\ pc["g1"] = "dead"
    /\ pc' = [pc EXCEPT !["g1"] = "try_merge"]
    /\ UNCHANGED <<gitvars, lock, sessvars, appvars>>

\* _do_merge, the lock is held: the request is dropped.
MergeDropped(t) ==
    /\ pc[t] = "try_merge" /\ lock # ""
    /\ pc' = [pc EXCEPT ![t] = "dead"]
    /\ UNCHANGED <<gitvars, lock, sessvars, appvars>>

\* _do_merge, the lock is free: _do_merge_impl runs under the lock.
DoMerge(t) ==
    /\ pc[t] = "try_merge"
    /\ Acquire(t)
    /\ \E F \in FaultSets(Cur) :
       \E m \in {do_merge_impl(Cur, F)} :
          /\ Becomes(m)
          /\ pc' = [pc EXCEPT ![t] = IF m.exc THEN "release_exc" ELSE "release"]
    /\ UNCHANGED <<cycles, halted, wait, appvars>>

\* initial_scan, without the lock: its fetch, whose exit status is not
\* read, then the classification.
InitialScan(t) ==
    /\ pc[t] = "scan"
    /\ \E fetched \in BOOLEAN, F \in ScanFaultSets(Cur) :
       \E m \in {initial_scan(IF fetched THEN GitFetch(Cur) ELSE Cur, F)} :
          Becomes(m)
    /\ pc' = [pc EXCEPT ![t] = "dead"]
    /\ UNCHANGED <<lock, cycles, halted, wait, appvars>>

Next ==
    \/ AgentCommit
    \/ LocalCommit
    \/ RemoteMainCommit
    \/ toggle_polling(OneTimer)
    \/ manual_merge
    \/ \E t \in OneTimer : TimerExit(t) \/ TimerLoop(t) \/ TimerSkip(t)
    \/ \E t \in OneTimer : TimerSync(t, MaxCycles)
    \/ \E t \in {"m1"} : SyncDropped(t) \/ ManualSync(t)
    \/ \E t \in {"g1"} : MergeDropped(t) \/ DoMerge(t)
    \/ \E t \in OneTimer \cup {"m1"} : DoSyncDecide(t)
    \/ \E t \in Threads : Release(t)
    \/ \E t \in {"s1"} : InitialScan(t)

Spec == Init /\ [][Next]_vars

\* One repository drawn as a whole, left alone by agents and operator: the
\* timer's cycles, the merge and the startup scan.
NextCycle ==
    \/ manual_merge
    \/ \E t \in OneTimer : TimerExit(t) \/ TimerLoop(t) \/ TimerSkip(t)
    \/ \E t \in OneTimer : TimerSync(t, MaxDrawnCycles)
    \/ \E t \in {"g1"} : MergeDropped(t) \/ DoMerge(t)
    \/ \E t \in OneTimer : DoSyncDecide(t)
    \/ \E t \in Threads : Release(t)
    \/ \E t \in {"s1"} : InitialScan(t)

SpecCycle == InitCycle /\ [][NextCycle]_vars

\* The same, on a repository with a branch named claude/origin/a.
SpecNames == InitNames /\ [][NextCycle]_vars

\* Time passes by one interval: every live timer is one interval closer to
\* its wake target, or later.
Tick ==
    /\ \E t \in Timers : pc[t] # "dead" /\ wait[t] > -MaxLate
    /\ wait' = [t \in Timers |->
                  IF pc[t] # "dead" /\ wait[t] > -MaxLate
                  THEN wait[t] - Interval ELSE wait[t]]
    /\ UNCHANGED <<gitvars, lock, tabvars, pc, appvars>>

\* The tab on a repository left alone, with the clock: two timer threads
\* can be alive, the operator starts and stops polling and syncs by hand.
NextTimed ==
    \/ toggle_polling(Timers)
    \/ Tick
    \/ \E t \in Timers : TimerExit(t) \/ TimerLoop(t) \/ TimerSkip(t)
    \/ \E t \in Timers : TimerSync(t, MaxTimedCycles)
    \/ \E t \in {"m1"} : SyncDropped(t) \/ ManualSync(t)
    \/ \E t \in Timers \cup {"m1"} : DoSyncDecide(t)
    \/ \E t \in Threads : Release(t)
    \/ \E t \in {"s1"} : InitialScan(t)

SpecTimed == Init /\ [][NextTimed]_vars

\* show_config_dialog, "Save": the tab takes the fields as entered (text
\* that is no number reads as 60) and writes them to githerd.toml; when the
\* file cannot be written the tab keeps the values and the file its content.
\* The remote, main branch and prefix fields are left as they are.
save_config ==
    /\ appop = "run"
    /\ \E entry \in IntervalEntries, written \in BOOLEAN :
          /\ interval' = IF entry = NotANumber THEN Interval ELSE entry[2]
          /\ toml' = IF written THEN Holds(interval') ELSE toml
    /\ UNCHANGED <<gitvars, lock, sessvars, pc, appop, probe, ended>>

\* The operator edits, creates or removes githerd.toml outside the
\* application.
EditToml ==
    /\ \E v \in TomlValues \ {toml} : toml' = v
    /\ UNCHANGED <<gitvars, lock, sessvars, pc, interval, appop, probe, ended>>

\* run_git, subprocess.run without a timeout: a command of the cycle never
\* returns (the remote does not answer, git waits for a password).
Hang(t) ==
    /\ pc[t] = "decide"
    /\ pc' = [pc EXCEPT ![t] = "hung"]
    /\ UNCHANGED <<gitvars, lock, sessvars, appvars>>

\* tab.polling_thread and tab.polling_thread.is_alive()
PollingThreadAlive == \E t \in Timers : pc[t] # "dead"

\* tab.wait_for_polling_thread(timeout): returns once the thread has ended
\* or the timeout has run out, whichever comes first.
wait_for_polling_thread(timed_out) == ~PollingThreadAlive \/ timed_out

\* "if tab.polling: tab.polling = False; tab.stop_event.set()"
StopTab == polling' = FALSE /\ halted' = halted

\* close_tab, up to its wait for the timer thread.
close_tab ==
    /\ appop = "run"
    /\ StopTab
    /\ appop' = "closing"
    /\ UNCHANGED <<gitvars, lock, tag, info, pending, lcc, btn, cmds, beep,
                   cycles, wait, pc, toml, interval, probe, ended>>

\* close_tab, after the wait (5 s at most): the tab is destroyed.
close_tab_done ==
    /\ appop = "closing"
    /\ \E timed_out \in BOOLEAN : wait_for_polling_thread(timed_out)
    /\ appop' = "closed"
    /\ UNCHANGED <<gitvars, lock, sessvars, pc, toml, interval, probe, ended>>

\* hide_repo, up to its wait for the timer thread.
hide_repo ==
    /\ appop = "run"
    /\ StopTab
    /\ appop' = "hiding"
    /\ UNCHANGED <<gitvars, lock, tag, info, pending, lcc, btn, cmds, beep,
                   cycles, wait, pc, toml, interval, probe, ended>>

\* hide_repo, after the wait (2 s at most): the tab is destroyed.
hide_repo_done ==
    /\ appop = "hiding"
    /\ \E timed_out \in BOOLEAN : wait_for_polling_thread(timed_out)
    /\ appop' = "hidden"
    /\ UNCHANGED <<gitvars, lock, sessvars, pc, toml, interval, probe, ended>>

\* rebuild_ui: polling is stopped and do_rebuild called: with a timer thread
\* alive it calls itself again 200 ms later, else the tabs are destroyed and
\* built anew.
rebuild_ui ==
    /\ appop = "run"
    /\ StopTab
    /\ appop' = IF PollingThreadAlive THEN "rebuild" ELSE "rebuilt"
    /\ UNCHANGED <<gitvars, lock, tag, info, pending, lcc, btn, cmds, beep,
                   cycles, wait, pc, toml, interval, probe, ended>>

\* do_rebuild, called again by the window's timer.
do_rebuild ==
    /\ appop = "rebuild"
    /\ appop' = IF PollingThreadAlive THEN "rebuild" ELSE "rebuilt"
    /\ UNCHANGED <<gitvars, lock, sessvars, pc, toml, interval, probe, ended>>

\* restart_app: with a cycle in progress or polling on, the operator is
\* asked; else the application restarts at once.
restart_app ==
    /\ appop = "run"
    /\ appop' = IF lock # "" \/ polling THEN "confirm" ELSE "restarted"
    /\ UNCHANGED <<gitvars, lock, sessvars, pc, toml, interval, probe, ended>>

\* The operator cancels the restart.
cancel_restart ==
    /\ appop = "confirm"
    /\ appop' = "run"
    /\ UNCHANGED <<gitvars, lock, sessvars, pc, toml, interval, probe, ended>>

\* do_restart: the operator confirms; polling is stopped and
\* wait_and_restart called: with a timer thread alive it calls itself again
\* 500 ms later, else the application is torn down and launched anew.
do_restart ==
    /\ appop = "confirm"
    /\ StopTab
    /\ appop' = IF PollingThreadAlive THEN "restart" ELSE "restarted"
    /\ UNCHANGED <<gitvars, lock, tag, info, pending, lcc, btn, cmds, beep,
                   cycles, wait, pc, toml, interval, probe, ended>>

\* wait_and_restart, called again by the window's timer.
wait_and_restart ==
    /\ appop = "restart"
    /\ appop' = IF PollingThreadAlive THEN "restart" ELSE "restarted"
    /\ UNCHANGED <<gitvars, lock, sessvars, pc, toml, interval, probe, ended>>

\* The tab in its window: the operator starts and stops polling, syncs by
\* hand, closes or hides the tab, rebuilds the window, restarts the
\* application; a command of a cycle may never return.
NextApp ==
    \/ toggle_polling(OneTimer)
    \/ close_tab \/ close_tab_done
    \/ hide_repo \/ hide_repo_done
    \/ rebuild_ui \/ do_rebuild
    \/ restart_app \/ cancel_restart \/ do_restart \/ wait_and_restart
    \/ \E t \in OneTimer : TimerExit(t) \/ TimerLoop(t) \/ TimerSkip(t)
    \/ \E t \in OneTimer : TimerSync(t, MaxAppCycles)
    \/ \E t \in {"m1"} : SyncDropped(t) \/ ManualSync(t)
    \/ \E t \in OneTimer \cup {"m1"} : DoSyncDecide(t) \/ Hang(t)
    \/ \E t \in Threads : Release(t)

SpecApp == Init /\ [][NextApp]_vars

\* One repository drawn as a whole, left alone by agents: several cycles in
\* a row, by the timer and by the "sync now" button.
NextRepeat ==
    \/ \E t \in OneTimer : TimerExit(t) \/ TimerLoop(t) \/ TimerSkip(t)
    \/ \E t \in OneTimer : TimerSync(t, MaxCycles)
    \/ \E t \in {"m1"} : SyncDropped(t) \/ ManualSync(t)
    \/ \E t \in OneTimer \cup {"m1"} : DoSyncDecide(t)
    \/ \E t \in Threads : Release(t)

SpecRepeat == InitCycle /\ [][NextRepeat]_vars

\* The candidate lists the detector can be given: tracked branches, each at
\* most once, in any order.
RECURSIVE ListsOf(_)
ListsOf(S) ==
    {<<>>} \cup UNION {{<<n>> \o l : l \in ListsOf(S \ {n})} : n \in S}

\* are_files_disjoint called on a candidate list, with any of its
\* changed-file lookups failing.
Detect ==
    /\ ~probe.called
    /\ \E branches \in ListsOf(DOMAIN tBr) :
       \E failed \in SUBSET {branches[i] : i \in 1..Len(branches)} :
          probe' = [branches |-> branches, failed |-> failed,
                    disjoint |-> are_files_disjoint(
                                    Cur, branches,
                                    {<<"files", n>> : n \in failed}),
                    called |-> TRUE]
    /\ UNCHANGED <<gitvars, lock, sessvars, pc, toml, interval, appop, ended>>

\* The conflict detector on its own, on any repository.
SpecDetect == InitCycle /\ [][Detect]_vars

\* The tab on a repository left alone, with the clock and the configuration:
\* one timer, the operator starts and stops polling, syncs by hand, changes
\* the configuration in the dialog and in the file.
NextConf ==
    \/ save_config
    \/ EditToml
    \/ toggle_polling(OneTimer)
    \/ Tick
    \/ \E t \in OneTimer : TimerExit(t) \/ TimerLoop(t) \/ TimerSkip(t)
    \/ \E t \in OneTimer : TimerSync(t, MaxConfCycles)
    \/ \E t \in {"m1"} : SyncDropped(t) \/ ManualSync(t)
    \/ \E t \in OneTimer \cup {"m1"} : DoSyncDecide(t)
    \/ \E t \in Threads : Release(t)

SpecConf == Init /\ [][NextConf]_vars
\* ================================================================ claims
\* What a step of a cycle read and ran, from the refs before the step and
\* the commands logged by it.
SyncThreads == Timers \cup {"m1"}
Decided(t) == pc[t] = "decide" /\ pc'[t] # "decide"
Completed(t) == pc[t] = "decide" /\ pc'[t] = "release"
Ran(c) == \E i \in 1..Len(cmds) : cmds[i] = c
IsAction(c) == c.c \in {"push", "push_main", "pull", "merge"}
Actions(s) == SelectSeq(s, IsAction)
Pushes(names) == [i \in 1..Len(names) |-> Cmd("push", names[i], TRUE)]
AllOk(s) == \A i \in 1..Len(s) : s[i].ok
\* The tracked branches in listing order.
Listing == SelectSeq(ListedNames, LAMBDA n : n \in DOMAIN tBr)
ChangedFiles(n) == {FileOf(c) : c \in tBr[n] \ tMain} \ {""}
\* The values the step's lookups returned: a failed commits-behind lookup
\* and a failed local-main lookup read as 0, a failed changed-file lookup as
\* the empty set.
SeenLocalAhead ==
    IF Ran(Cmd("lma", NoName, TRUE))' THEN Card(lMain \ tMain) ELSE 0
SeenAhead(n) == Card(tBr[n] \ tMain)
SeenBehind(n) ==
    IF Ran(Cmd("behind", n, TRUE))' THEN Card(tMain \ tBr[n]) ELSE 0
SeenBehindAgain(n) ==
    IF Ran(Cmd("behind2", n, TRUE))' THEN Card(tMain \ tBr[n]) ELSE 0
SeenFiles(n) ==
    IF Ran(Cmd("files", n, TRUE))' THEN ChangedFiles(n) ELSE {}
SeenDiverged == {n \in DOMAIN tBr : SeenAhead(n) > 0 /\ SeenBehind(n) > 0}
SeenClean == {n \in DOMAIN tBr : SeenAhead(n) > 0 /\ SeenBehind(n) = 0}
SeenDisjoint ==
    \A a, b \in SeenDiverged \cup SeenClean :
        a # b => SeenFiles(a) \cap SeenFiles(b) = {}
ErrorTags == {"Error", "PushFailed"}

\* C1: for one repository at most one engine operation (a scheduled cycle,
\* a "sync now" cycle, a manual merge) is executing at any time: two threads
\* are never both between the acquisition of the lock and its release, and
\* the thread that is holds the lock.
InOperation(t) == pc[t] \in {"decide", "release", "release_exc"}
C1_MutualExclusion ==
    \A t, u \in Threads :
        InOperation(t) /\ InOperation(u) => t = u /\ lock = t
\* An operation is running while another request waits to try the lock.
C1_Witness ==
    \E t, u \in Threads :
        /\ t # u
        /\ InOperation(t)
        /\ pc[u] \in {"call", "try_merge"}

\* C2: no step makes a commit unreachable: remote main, every tracked
\* branch and local main only ever move to a descendant of their previous
\* tip (their sets of reachable commits only grow).
C2_RefsOnlyAdvance ==
    [][/\ rMain \subseteq rMain'
       /\ lMain \subseteq lMain'
       /\ \A n \in DOMAIN rBr :
             n \in DOMAIN rBr' /\ rBr[n] \subseteq rBr'[n]]_vars
\* A fan-out push was refused for a branch holding a commit that local main
\* lacks (a forced push would have dropped it).
C2_Witness ==
    \E i \in 1..Len(cmds) :
        /\ cmds[i].c = "push" /\ ~cmds[i].ok
        /\ cmds[i].a \in DOMAIN rBr
        /\ ~(rBr[cmds[i].a] \subseteq lMain)

\* C3: a manual merge never merges two branches that changed a common file:
\* the branches a merge step merged have pairwise disjoint changed-file
\* sets relative to main (taken where the merge starts).
C3_NeverMergesOverlap ==
    [][\A a, b \in DOMAIN tBr :
          (/\ pc["g1"] = "try_merge"
           /\ a # b
           /\ Ran(Cmd("merge", a, TRUE))'
           /\ Ran(Cmd("merge", b, TRUE))')
          => ChangedFiles(a) \cap ChangedFiles(b) = {}]_vars
\* C4: in the ambiguous case (the fetch succeeded, local main is read as
\* not ahead, and the classification finds a diverged branch or more than
\* one ahead-clean branch) the cycle runs no push, pull or merge, ends in
\* MergeAvailable when the changed-file sets it read for the implicated
\* branches are pairwise disjoint and in HumanRequired otherwise, and
\* switches polling off.
C4_AmbiguousStops ==
    [][\A t \in SyncThreads :
          (/\ Completed(t)
           /\ SeenLocalAhead = 0
           /\ (SeenDiverged # {} \/ Card(SeenClean) > 1))
          => /\ Actions(cmds') = <<>>
             /\ tag' = IF SeenDisjoint THEN "MergeAvailable"
                       ELSE "HumanRequired"
             /\ ~polling']_vars
\* A cycle has just stopped on two or more implicated branches with a
\* common file.
C4_Witness ==
    /\ pc["t1"] = "release"
    /\ tag = "HumanRequired" /\ ~polling
    /\ Len(pending) > 1
    /\ \A i \in 1..Len(pending) : Ran(Cmd("files", pending[i], TRUE))

\* C5: a cycle whose classification finds a diverged branch never runs
\* pull --ff-only, whatever the number of ahead-clean branches; when it
\* completes it has taken the ambiguous path, with every diverged branch
\* pending.
C5_DivergedNeverPulled ==
    [][\A t \in SyncThreads :
          (Decided(t) /\ SeenDiverged # {})
          => /\ \A i \in 1..Len(cmds') : cmds'[i].c # "pull"
             /\ pc'[t] = "release"
                => /\ tag' \in {"MergeAvailable", "HumanRequired"}
                   /\ \A d \in SeenDiverged :
                         \E i \in 1..Len(pending') : pending'[i] = d]_vars
\* A cycle has just stopped on one diverged branch next to exactly one
\* ahead-clean branch.
C5_Witness ==
    /\ pc["t1"] = "release"
    /\ tag \in {"MergeAvailable", "HumanRequired"}
    /\ \E d, c \in DOMAIN tBr :
          /\ pending = <<d, c>>
          /\ Ran(Cmd("behind", d, TRUE)) /\ Ran(Cmd("behind", c, TRUE))
          /\ tBr[d] \ tMain # {} /\ tMain \ tBr[d] # {}
          /\ tBr[c] \ tMain # {} /\ tMain \ tBr[c] = {}

\* C6: when the fetch succeeded, local main is not ahead, exactly one
\* tracked branch is ahead with behind = 0, every other tracked branch has
\* ahead = 0 and every command of the cycle succeeds, the cycle pulls that
\* branch into local main by fast-forward, pushes main, pushes main to every
\* tracked branch in listing order, ends in SyncOK, and the recorded ahead
\* count of that branch is 0.
C6_SingleLeader ==
    [][\A t \in SyncThreads : \A leader \in DOMAIN tBr :
          (/\ Completed(t)
           /\ AllOk(cmds')
           /\ SeenLocalAhead = 0
           /\ SeenClean = {leader} /\ SeenDiverged = {})
          => /\ Actions(cmds') =
                  <<Cmd("pull", leader, TRUE), Cmd("push_main", MainArg, TRUE)>>
                  \o Pushes(Listing)
             /\ lMain' = rBr[leader]
             /\ rMain' = lMain'
             /\ \A n \in DOMAIN tBr : rBr'[n] = lMain'
             /\ tag' = "SyncOK"
             /\ leader \in DOMAIN lcc' /\ lcc'[leader] = 0]_vars
\* A cycle has just pulled its leader and fanned main out to two or more
\* tracked branches.
C6_Witness ==
    /\ pc["t1"] = "release"
    /\ tag = "SyncOK"
    /\ AllOk(cmds)
    /\ Len(Listing) > 1
    /\ \E leader \in DOMAIN lcc :
          /\ Ran(Cmd("pull", leader, TRUE))
          /\ lcc[leader] = 0
          /\ \A n \in DOMAIN rBr : rBr[n] = lMain

\* C7: when the fetch succeeded and local main is read as ahead of the
\* remote's main by n > 0, the cycle classifies no branch; it pushes main
\* and then main to the tracked branches in listing order, stopping at the
\* first push that fails; when the listing is obtained and every push
\* succeeds, every tracked branch is pushed and the cycle ends in SyncOK
\* with a summary that carries n.
C7_LocalAheadPushes ==
    [][\A t \in SyncThreads :
          (Decided(t) /\ SeenLocalAhead > 0)
          => LET ran == Actions(cmds')
                 all == <<Cmd("push_main", MainArg, TRUE)>> \o Pushes(Listing)
             IN  /\ \A i \in 1..Len(cmds') :
                       cmds'[i].c \notin {"ahead", "behind", "behind2", "files"}
                 /\ Len(ran) >= 1 /\ Len(ran) <= Len(all)
                 /\ \A i \in 1..Len(ran) :
                       /\ ran[i].c = all[i].c /\ ran[i].a = all[i].a
                       /\ i < Len(ran) => ran[i].ok
                 /\ (pc'[t] = "release" /\ AllOk(ran))
                    => /\ ran = all
                       /\ tag' = "SyncOK"
                       /\ info' = Info("PushLocal", SeenLocalAhead, NoName)]_vars
\* A cycle has just pushed two local commits and fanned main out to two or
\* more tracked branches.
C7_Witness ==
    /\ pc["t1"] = "release"
    /\ tag = "SyncOK"
    /\ info = Info("PushLocal", 2, NoName)
    /\ Len(Listing) > 1
    /\ Actions(cmds) = <<Cmd("push_main", MainArg, TRUE)>> \o Pushes(Listing)

SeenBehindList == SelectSeq(Listing, LAMBDA n : SeenBehindAgain(n) > 0)
C9_FastSyncPushes ==
    [][\A t \in SyncThreads :
          (/\ Completed(t)
           /\ SeenLocalAhead = 0
           /\ \A n \in DOMAIN tBr : SeenAhead(n) = 0
           /\ SeenBehindList # <<>>)
          => LET ran == cmds'
                 acts == Actions(cmds')
                 all == Pushes(SeenBehindList)
             IN  /\ Len(acts) >= 1 /\ Len(acts) <= Len(all)
                 /\ \A i \in 1..Len(acts) :
                       /\ acts[i].c = "push" /\ acts[i].a = all[i].a
                       /\ i < Len(acts) => acts[i].ok
                 /\ \A i \in 1..Len(all) :
                       rBr'[all[i].a] =
                          IF i < Len(acts) \/ (i = Len(acts) /\ acts[i].ok)
                          THEN lMain ELSE rBr[all[i].a]
                 /\ \A n \in DOMAIN rBr :
                       SeenBehindAgain(n) = 0 => rBr'[n] = rBr[n]
                 /\ IF AllOk(acts)
                    THEN Len(acts) = Len(all) /\ tag' = "SyncOK"
                    ELSE tag' = "Error" /\ ~polling']_vars
\* A fast-sync has just stopped on its second push: the first is kept, a
\* third branch that is behind was not attempted, a branch that is not
\* behind was left alone.
C9_Witness ==
    /\ pc["t1"] = "release"
    /\ tag = "Error"
    /\ Len(Actions(cmds)) = 2
    /\ Actions(cmds)[1].ok /\ ~Actions(cmds)[2].ok
    /\ Ran(Cmd("behind2", Actions(cmds)[2].a, TRUE))
    /\ rBr[Actions(cmds)[1].a] = lMain
    /\ \E n \in DOMAIN tBr :
          /\ Ran(Cmd("behind2", n, TRUE))
          /\ tBr[n] = tMain
          /\ ~Ran(Cmd("push", n, TRUE)) /\ ~Ran(Cmd("push", n, FALSE))

\* C10: whenever the fetch, the pull or a push of a cycle exits non-zero,
\* the cycle runs no further command, ends in Error and switches polling
\* off; and from then on no scheduled cycle starts until the operator
\* switches polling on again.
TimerStarts == \E t \in Timers : pc[t] = "call" /\ pc'[t] \in {"decide", "release"}
CycleStep(t) ==
    \/ pc[t] \in {"dead", "call"} /\ pc'[t] \in {"decide", "release"}
    \/ Decided(t)
IsFailure(c) == c.c \in {"fetch", "pull", "push", "push_main"} /\ ~c.ok
C10_FailureHaltsSchedule ==
    [][/\ \A t \in SyncThreads :
             (CycleStep(t) /\ \E i \in 1..Len(cmds') : IsFailure(cmds'[i]))
             => /\ IsFailure(cmds'[Len(cmds')])
                /\ tag' \in ErrorTags
                /\ ~polling'
       /\ halted => ~TimerStarts]_vars
\* The first half of C10 on its own: the failing command is the cycle's
\* last, the display is an error, polling is off.
FailureStopsCycle ==
    [][\A t \in SyncThreads :
          (CycleStep(t) /\ \E i \in 1..Len(cmds') : IsFailure(cmds'[i]))
          => /\ IsFailure(cmds'[Len(cmds')])
             /\ tag' \in ErrorTags
             /\ ~polling']_vars
\* C11: in a fan-out over the tracked branches b1..bn (after main was
\* pushed, in a cycle or a merge), when the push to bk is the first to fail,
\* b1..b(k-1) have been pushed and stay at main, bk and the later branches
\* keep their tips, no push is attempted after bk, the summary names bk, the
\* state is an error state and polling is off.
MergeStep == pc["g1"] = "try_merge" /\ pc'["g1"] \in {"release", "release_exc"}
EngineStep == MergeStep \/ \E t \in SyncThreads : Decided(t)
FannedOut(s) ==
    LET acts == Actions(s)
        p == CHOOSE i \in 1..Len(acts) : acts[i].c = "push_main"
    IN  SubSeq(acts, p + 1, Len(acts))
C11_FanOutStopsAtFailure ==
    [][(/\ EngineStep
        /\ Ran(Cmd("push_main", MainArg, TRUE))'
        /\ ~AllOk(FannedOut(cmds')))
       => LET fan == FannedOut(cmds')
              k == Len(fan)
          IN  /\ k <= Len(Listing)
              /\ \A j \in 1..k :
                    /\ fan[j].c = "push" /\ fan[j].a = Listing[j]
                    /\ fan[j].ok = (j < k)
              /\ \A j \in 1..Len(Listing) :
                    rBr'[Listing[j]] =
                       IF j < k THEN lMain' ELSE rBr[Listing[j]]
              /\ tag' \in ErrorTags
              /\ info' = Info("PushFailed", 0, Listing[k])
              /\ ~polling']_vars
\* A cycle's fan-out over three branches has just failed on the second: the
\* first is at main, the third is not.
C11_Witness ==
    /\ pc["t1"] = "release"
    /\ tag = "PushFailed"
    /\ Len(Listing) = 3
    /\ info = Info("PushFailed", 0, Listing[2])
    /\ rBr[Listing[1]] = lMain
    /\ rBr[Listing[3]] # lMain

\* C12: when a cycle ends in MergeAvailable, the pending list holds, as a
\* set, exactly the tracked branches with ahead > 0 in that cycle, diverged
\* and ahead-clean alike, each once.
C12_PendingIsAheadSet ==
    [][\A t \in SyncThreads :
          (Completed(t) /\ tag' = "MergeAvailable")
          => LET ahead == {n \in DOMAIN tBr : SeenAhead(n) > 0}
             IN  /\ {pending'[i] : i \in 1..Len(pending')} = ahead
                 /\ Len(pending') = Card(ahead)]_vars
\* A cycle has just offered the merge of a diverged branch listed after the
\* ahead-clean branch it is pending with.
C12_Witness ==
    /\ pc["t1"] = "release"
    /\ tag = "MergeAvailable"
    /\ pending = <<AllNames[3], AllNames[1]>>
    /\ Ran(Cmd("files", AllNames[1], TRUE))
    /\ tMain \ tBr[AllNames[3]] # {}
    /\ tMain \ tBr[AllNames[1]] = {}

\* C13: whenever no cycle or merge is running, the pending list is
\* non-empty only if the state is MergeAvailable.
C13_PendingOnlyWhenMergeAvailable ==
    (lock = "" /\ pending # <<>>) => tag = "MergeAvailable"
\* The second half of C13 on its own: a cycle or merge that ends leaves a
\* pending list behind only in MergeAvailable.
EndLeavesNoPending ==
    [][\A t \in SyncThreads \cup {"g1"} :
          (pc[t] \in {"release", "release_exc"} /\ lock' = "")
          => (pending' # <<>> => tag' = "MergeAvailable")]_vars

\* C14: a manual merge runs merge commands only when the state is
\* MergeAvailable: a merge step taken in any other state runs no merge and
\* no push.
C14_MergeOnlyWhenAvailable ==
    [][(MergeStep /\ tag # "MergeAvailable") => Actions(cmds') = <<>>]_vars

\* C15: the manual merge merges the pending branches one at a time in list
\* order; at the first merge that fails it runs merge --abort and nothing
\* after it (no further merge, no push), the state is the error display
\* "Merge échoué", polling is stopped, and the branches merged before the
\* failure stay merged in local main.
Merges(s) == SelectSeq(s, LAMBDA c : c.c = "merge")
C15_MergeStopsAtFailure ==
    [][(MergeStep /\ pending # <<>>)
       => LET merges == Merges(cmds')
              k == Len(merges)
          IN  /\ k >= 1 /\ k <= Len(pending)
              /\ SubSeq(cmds', 1, k) = merges
              /\ \A j \in 1..k : /\ merges[j].a = pending[j]
                                 /\ j < k => merges[j].ok
              /\ ~merges[k].ok
                 => /\ cmds' = merges \o <<Cmd("merge_abort", NoName, TRUE)>>
                    /\ tag' = "MergeFailed"
                    /\ info' = Info("MergeFailed", 0, pending[k])
                    /\ ~polling'
                    /\ rMain' = rMain /\ rBr' = rBr
                    /\ \A j \in 1..(k - 1) :
                         lMain \cup tBr[pending[j]] \subseteq lMain']_vars
\* The second of three pending merges failed: the first is in local main,
\* the third was not tried.
C15_Witness ==
    /\ pc["g1"] = "release" /\ tag = "MergeFailed"
    /\ Len(pending) = 3
    /\ Len(Merges(cmds)) = 2
    /\ ~(tBr[pending[1]] \subseteq tMain)
    /\ tBr[pending[1]] \subseteq lMain
    /\ ~(tBr[pending[3]] \subseteq lMain)

\* C16: a manual merge all of whose merges succeed then pushes main and
\* fans the push out to every tracked branch; when every push succeeds as
\* well, the pending list and the ahead-count memory are empty afterwards
\* and the remote main and every tracked branch are at local main.
C16_MergeThenFanOut ==
    [][(MergeStep /\ pending # <<>> /\ AllOk(Merges(cmds')))
       => LET acts == Actions(cmds')
              n == Len(pending)
          IN  /\ Len(Merges(cmds')) = n
              /\ Len(acts) > n /\ acts[n + 1].c = "push_main"
              /\ AllOk(cmds')
                 => /\ acts = Merges(cmds')
                                \o <<Cmd("push_main", MainArg, TRUE)>>
                                \o Pushes(Listing)
                    /\ rMain' = lMain'
                    /\ \A b \in DOMAIN tBr : rBr'[b] = lMain'
                    /\ pending' = <<>> /\ lcc' = <<>>
                    /\ tag' = "MergeOK"]_vars
\* Two branches were merged by a merge commit and main was pushed to all
\* three tracked branches.
C16_Witness ==
    /\ pc["g1"] = "release" /\ tag = "MergeOK"
    /\ Len(Merges(cmds)) = 2
    /\ Card(DOMAIN tBr) = 3
    /\ \E c \in lMain : IsMerge(c)
    /\ rMain = lMain /\ \A b \in DOMAIN tBr : rBr[b] = lMain
    /\ pending = <<>> /\ lcc = <<>>

\* C17: a sync or merge request that finds the lock held is dropped: the
\* step of a thread that calls sync or _do_merge while another thread holds
\* the lock runs no command and changes neither the repository, the lock,
\* the state, the pending list nor the ahead-count memory, and it leaves
\* the thread out of the operation (the timer back in its loop, the
\* one-shot thread ended) without waiting for the lock; an operation only
\* ever begins at a step that found the lock free.
Requesting(t) == pc[t] \in {"call", "try_merge"}
C17_BusyRequestDropped ==
    [][\A t \in Threads :
          /\ (Requesting(t) /\ lock # "" /\ pc'[t] # pc[t])
             => /\ pc'[t] = IF IsTimer(t) THEN "tick" ELSE "dead"
                /\ UNCHANGED <<gitvars, lock, polling, tag, info, pending,
                               lcc, btn, cmds, cycles>>
          /\ (~InOperation(t) /\ InOperation(t)') => lock = ""]_vars
\* The timer's sync call was dropped while the merge held the lock: no
\* cycle has run, the merge goes on, the timer is back in its loop with its
\* wake target one interval on.
C17_Witness ==
    /\ lock = "g1" /\ pc["g1"] = "release" /\ Len(Merges(cmds)) > 0
    /\ cycles = 0 /\ pc["t1"] = "tick" /\ wait["t1"] = Interval

\* C18: a timer tick that finds the lock held is skipped and not retried
\* early: the skip moves the timer's wake target one interval on from the
\* skipped tick's target, the target then stays where it is while the timer
\* sleeps (the time left only shrinks), and the timer's next attempt to
\* start a cycle is made with that target reached (no time left to wait).
TimerSkipped(t) == pc[t] = "call" /\ lock # "" /\ pc'[t] = "tick"
TimerAttempts(t) == pc[t] = "tick" /\ pc'[t] = "call"
C18_SkippedTickNotRetriedEarly ==
    [][\A t \in Timers :
          /\ TimerSkipped(t) => wait'[t] = wait[t] + Interval
          /\ (pc[t] = "tick" /\ pc'[t] = "tick") => wait'[t] <= wait[t]
          /\ TimerAttempts(t) => wait'[t] <= 0]_vars
\* The timer's tick was skipped while a "sync now" cycle, the only cycle
\* started so far, holds the lock: the timer sleeps, one interval to wait.
C18_Witness ==
    /\ lock = "m1" /\ pc["m1"] = "decide" /\ cycles = 1
    /\ pc["t1"] = "tick" /\ wait["t1"] = Interval /\ polling

\* C19: for one repository at most one timer thread (polling_loop) is alive
\* at any time, whatever the sequence of starts and stops of polling.
LiveTimers == {t \in Timers : pc[t] # "dead"}
C19_OneTimerAlive == Card(LiveTimers) <= 1

\* C20: stopping polling only clears the flag that a timer reads before
\* each tick.  At a step that clears the flag no timer is ended or woken
\* (only the thread taking the step moves), the holder of the lock keeps it
\* and stays in its operation, and the operator's stop (a step that runs no
\* command) changes nothing but the flag.  A cycle in flight is not held up
\* by the cleared flag: its next step can be taken, and its decision step,
\* unless an exception ends the thread, ends in a terminal state.  A timer that reads the flag as cleared ends
\* without starting a cycle, and a timer thread only starts at a switch-on.
StopStep == polling /\ ~polling'
C20_StopOnlyClearsFlag ==
    /\ [](\A t \in SyncThreads :
            /\ (pc[t] = "decide" /\ ~polling) => ENABLED DoSyncDecide(t)
            /\ (pc[t] \in {"release", "release_exc"} /\ ~polling)
               => ENABLED Release(t))
    /\ [][
       /\ StopStep
          => /\ \A t \in Timers :
                  lock' # t => pc'[t] = pc[t] /\ wait'[t] = wait[t]
             /\ lock # "" => lock' = lock /\ InOperation(lock)'
             /\ cmds' = cmds
                => UNCHANGED <<gitvars, lock, pc, tag, info, pending, lcc,
                               btn, cycles, wait>>
       /\ \A t \in SyncThreads :
            /\ (pc[t] = "decide" /\ ~polling /\ Completed(t))
               => tag' # "Syncing"
       /\ \A t \in Timers :
            /\ (pc[t] = "tick" /\ ~polling /\ pc'[t] # "tick")
               => pc'[t] = "dead" /\ UNCHANGED <<gitvars, lock, tabvars>>
            /\ (pc[t] = "dead" /\ pc'[t] # "dead") => ~polling /\ polling'
       ]_vars
\* Polling was switched off by the operator and the timer's cycle went on
\* to its end: it found everything in sync and is about to release the lock.
C20_Witness ==
    /\ ~polling /\ ~halted
    /\ lock = "t1" /\ pc["t1"] = "release"
    /\ tag = "Idle" /\ cmds # <<>>

\* C21: the timer computes each wake target as the previous target plus the
\* interval, never as the current time plus the interval.  With wait the
\* time left to the target: the end of an iteration (the cycle's release, or
\* a skipped tick) moves the target on by exactly one interval, however long
\* the cycle ran and however late it ended; no other step of a live timer
\* moves its target (the time left only shrinks); and the sleep before the
\* next tick lasts the time left when the target is ahead and zero, not a
\* negative time, when the cycle overran it.
IterationEnds(t) ==
    /\ pc[t] \in {"call", "release"}
    /\ pc'[t] = "tick"
C21_TargetIsPreviousPlusInterval ==
    [][\A t \in Timers :
          /\ IterationEnds(t) => wait'[t] = wait[t] + Interval
          /\ (pc[t] # "dead" /\ pc'[t] # "dead" /\ ~IterationEnds(t))
             => wait'[t] <= wait[t]
          /\ (pc[t] = "tick" /\ pc'[t] = "call")
             => wait'[t] = IF wait[t] > 0 THEN 0 ELSE wait[t]]_vars
\* A cycle overran its target by more than an interval: after its release
\* the timer is late, and it is at its next call without having waited.
C21_Witness ==
    /\ pc["t1"] = "call" /\ wait["t1"] = Interval - MaxLate
    /\ cycles = 1 /\ tag = "Idle" /\ lock = "" /\ pc["t2"] = "dead"

\* C22: the timer re-reads interval_seconds from the repository's
\* configuration on every iteration: at the end of each iteration (a cycle
\* released, or a tick skipped) the wake target moves on by the value
\* githerd.toml holds at that moment, whatever value it held when polling
\* was started and whatever the tab itself holds.
C22_IntervalReadEachIteration ==
    [][\A t \in Timers : \A n \in Intervals :
          (IterationEnds(t) /\ toml = Holds(n))
          => wait'[t] = IF wait[t] + n < -MaxLate THEN -MaxLate
                        ELSE wait[t] + n]_vars
\* The file was given a longer interval than the tab holds while polling
\* ran; the timer ended a cycle and now sleeps for that longer interval.
C22_Witness ==
    /\ polling /\ pc["t1"] = "tick" /\ cycles >= 1
    /\ toml = Holds(MaxInterval) /\ interval = Interval
    /\ wait["t1"] = MaxInterval

\* C23: in every reachable state the polling interval in effect is at least
\* one second: neither the interval the tab holds nor the one the timer
\* loads for its next wait is zero or negative, whatever was entered in the
\* options dialog or written to githerd.toml.  (The remote's and the main
\* branch's names, which the claim also covers, are fixed in this model.)
C23_IntervalAtLeastOne == interval >= 1 /\ LoadedInterval >= 1

\* C24: every operation that waits for the repository's timer thread to
\* stop (closing the tab, hiding the repository, rebuilding the window,
\* restarting the application) waits for a bounded time and then proceeds
\* even if the thread never ends: while a cycle of the timer hangs on a
\* command that never returns, the waiting operation can still take the step
\* that ends its wait.
Waiting == appop \in {"closing", "hiding", "rebuild", "restart"}
WaitEnds ==
    /\ close_tab_done \/ hide_repo_done \/ do_rebuild \/ wait_and_restart
    /\ ~Waiting'
C24_WaitsAreBounded ==
    (Waiting /\ \E t \in Timers : pc[t] = "hung") => ENABLED WaitEnds

\* C25: the conflict detector answers "disjoint" exactly when no file is in
\* the changed-file sets (as its lookups returned them) of two different
\* candidates; the answer is the same for the candidate list in reverse
\* order, and it is "disjoint" for a list of no or one branch.
Returned(n) == IF n \in probe.failed THEN {} ELSE ChangedFiles(n)
Reverse(l) == [i \in 1..Len(l) |-> l[Len(l) + 1 - i]]
C25_DisjointIffNoSharedFile ==
    probe.called
    => LET b == probe.branches
       IN  /\ probe.disjoint
              = (\A i, j \in 1..Len(b) :
                    b[i] # b[j] => Returned(b[i]) \cap Returned(b[j]) = {})
           /\ probe.disjoint
              = are_files_disjoint(Cur, Reverse(b),
                                   {<<"files", n>> : n \in probe.failed})
           /\ Len(b) <= 1 => probe.disjoint
\* Three candidates of which only the first and the last share a file: the
\* answer is "not disjoint".
C25_Witness ==
    /\ probe.called /\ ~probe.disjoint /\ probe.failed = {}
    /\ Len(probe.branches) = 3
    /\ ChangedFiles(probe.branches[1]) \cap ChangedFiles(probe.branches[2]) = {}
    /\ ChangedFiles(probe.branches[2]) \cap ChangedFiles(probe.branches[3]) = {}
    /\ ChangedFiles(probe.branches[2]) # {}

\* C26: a candidate whose changed-file lookup fails contributes the empty
\* set to the conflict detector, so failed lookups alone never turn its
\* answer from "disjoint" to "not disjoint": whenever the candidates' true
\* changed-file sets are pairwise disjoint, the detector answers "disjoint"
\* whichever lookups failed.
TrulyDisjoint(b) ==
    \A i, j \in 1..Len(b) :
        b[i] # b[j] => ChangedFiles(b[i]) \cap ChangedFiles(b[j]) = {}
C26_FailedLookupNeverConflicts ==
    probe.called
    => /\ \A n \in probe.failed :
            get_changed_files(Cur, RefOf(n), TRUE) = {}
       /\ TrulyDisjoint(probe.branches) => probe.disjoint
\* Two candidates with different changed files; the lookup of one of them
\* failed and the answer is "disjoint".
C26_Witness ==
    /\ probe.called /\ probe.disjoint
    /\ Len(probe.branches) = 2 /\ TrulyDisjoint(probe.branches)
    /\ probe.failed = {probe.branches[1]}
    /\ ChangedFiles(probe.branches[1]) # {}
    /\ ChangedFiles(probe.branches[2]) # {}

\* C27: a cycle in which a commits-behind or a changed-files lookup fails,
\* and no other command does, raises no exception and does not end in Error:
\* it takes the decision that the values 0 and {} in place of the failed
\* lookups call for (ambiguous: MergeAvailable or HumanRequired without any
\* command; one leader: pull, push main, fan out; branches behind: fast-sync;
\* otherwise Idle).
SoftLookups == {"behind", "behind2", "files"}
SoftLookupFailed(s) == \E i \in 1..Len(s) : s[i].c \in SoftLookups /\ ~s[i].ok
OnlySoftLookupsFailed(s) ==
    \A i \in 1..Len(s) : ~s[i].ok => s[i].c \in SoftLookups
C27_SoftLookupFailuresAbsorbed ==
    [][\A t \in SyncThreads :
          (/\ Decided(t)
           /\ SoftLookupFailed(cmds')
           /\ OnlySoftLookupsFailed(cmds'))
          => /\ pc'[t] = "release"
             /\ tag' \notin ErrorTags \cup {"Syncing"}
             /\ IF SeenDiverged # {} \/ Card(SeenClean) > 1
                THEN /\ Actions(cmds') = <<>>
                     /\ tag' = IF SeenDisjoint THEN "MergeAvailable"
                               ELSE "HumanRequired"
                ELSE IF SeenClean # {}
                THEN \E leader \in SeenClean :
                        /\ Actions(cmds') =
                             <<Cmd("pull", leader, TRUE),
                               Cmd("push_main", MainArg, TRUE)>>
                             \o Pushes(Listing)
                        /\ tag' = "SyncOK"
                ELSE IF SeenBehindList # <<>>
                THEN /\ Actions(cmds') = Pushes(SeenBehindList)
                     /\ tag' = "SyncOK"
                ELSE Actions(cmds') = <<>> /\ tag' = "Idle"]_vars
\* A cycle has just offered the merge of two branches ahead, having failed to
\* read how far behind one of them is (it is behind).
C27_Witness ==
    /\ pc["t1"] = "release"
    /\ tag = "MergeAvailable"
    /\ Len(pending) = 2
    /\ \E n \in DOMAIN tBr :
          /\ Ran(Cmd("behind", n, FALSE))
          /\ tMain \ tBr[n] # {}

\* C28: reading a failed commits-behind lookup as 0 never changes what the
\* cycle does with a branch that is ahead: a branch that is ahead of main
\* and behind it (diverged) is never the leader pulled with --ff-only,
\* whether its commits-behind lookup succeeded or not; and a cycle that
\* finds local main not ahead and a diverged branch completes on the
\* ambiguous path.
Diverged == {n \in DOMAIN tBr : tBr[n] \ tMain # {} /\ tMain \ tBr[n] # {}}
C28_DivergedNeverLeader ==
    [][\A t \in SyncThreads :
          (Decided(t) /\ Diverged # {})
          => /\ \A i \in 1..Len(cmds') :
                   cmds'[i].c = "pull" => cmds'[i].a \notin Diverged
             /\ (pc'[t] = "release" /\ Ran(Cmd("lma", NoName, TRUE))'
                 /\ Card(lMain \ tMain) = 0)
                => tag' \in {"MergeAvailable", "HumanRequired"}]_vars

\* C29: a commits-ahead lookup that fails, for local main or for a tracked
\* branch, is never absorbed: the cycle raises, the failed lookup is the
\* last command it ran, and so no push, pull or merge follows it.
HardLookups == {"lma", "ahead"}
C29_AheadFailureNeverAbsorbed ==
    [][\A t \in SyncThreads :
          Decided(t)
          => \A i \in 1..Len(cmds') :
                (cmds'[i].c \in HardLookups /\ ~cmds'[i].ok)
                => /\ pc'[t] = "release_exc"
                   /\ \A j \in (i + 1)..Len(cmds') : ~IsAction(cmds'[j])]_vars

\* C30: what a cycle does is a function of what it observes, not of the
\* session's history.  The first part of a cycle (up to the fetch) leaves
\* the commands, state, pending list, button, polling flag and refs that it
\* would leave on a freshly opened tab (empty memory, no pending list, state
\* "Starting") with the same fetch outcome; the second part leaves those
\* that it would leave with an empty ahead-count memory and the same command
\* outcomes.  Only the memory itself and the new-commit notification may
\* differ.
Fresh(m) ==
    [m EXCEPT !.lcc = <<>>, !.pending = <<>>, !.tag = "Starting",
              !.info = Info("Analysing", 0, NoName), !.btn = FALSE,
              !.cmds = <<>>, !.beep = FALSE]
NoMemory(m) == [m EXCEPT !.lcc = <<>>]
SameOutcome(m) ==
    /\ m.cmds = cmds' /\ m.tag = tag' /\ m.pending = pending'
    /\ m.info = info' /\ m.btn = btn' /\ m.polling = polling'
    /\ m.rMain = rMain' /\ m.rBr = rBr' /\ m.tMain = tMain' /\ m.tBr = tBr'
    /\ m.lMain = lMain'
Started(t) == pc[t] \in {"call", "dead"} /\ pc'[t] \in {"decide", "release"}
C30_DecisionIsHistoryFree ==
    [][\A t \in SyncThreads :
          /\ Started(t)
             => \E fetched \in BOOLEAN :
                   SameOutcome(SyncFetch(Fresh(Cur), fetched))
          /\ Decided(t)
             => \E F \in FaultSets(Cur) :
                   LET m == SyncDecide(NoMemory(Cur), F)
                   IN  SameOutcome(m) /\ (m.exc <=> pc'[t] = "release_exc")]_vars
\* A cycle has just pulled a leader without the new-commit notification:
\* the startup scan had recorded the leader's ahead count in the memory and
\* left its own state and report.
C30_Witness ==
    /\ pc["t1"] = "release"
    /\ tag = "SyncOK" /\ ~beep
    /\ \E n \in DOMAIN tBr : Ran(Cmd("pull", n, TRUE))

\* C31: a cycle that follows another on an unchanged repository, no command
\* of either failing for an outside reason, ends as the first did: it is a
\* no-op that ends in Idle, or it repeats the first cycle's halt state
\* (MergeAvailable with the same pending list, HumanRequired, or Error).
HaltTags == {"MergeAvailable", "HumanRequired", "Error", "PushFailed"}
C31_SecondCycleRepeats ==
    [][\A t \in SyncThreads :
          (Decided(t) /\ ended.tag # "" /\ ended.clean /\ ended'.clean)
          => \/ tag' = "Idle" /\ Actions(cmds') = <<>>
             \/ /\ tag' \in HaltTags
                /\ tag' = ended.tag
                /\ tag' = "MergeAvailable" => pending' = ended.pending]_vars

\* C32: every cycle or merge in which the fetch, a push, the pull or a merge
\* exits non-zero leaves a summary written for that failure (never the
\* summary of an earlier operation), naming the branch when the command has
\* one.
FailureSummaries == {"PushFailed", "PullFailed", "MergeFailed", "FetchFailed"}
CommandFailed(s) ==
    \E i \in 1..Len(s) : (IsFailure(s[i]) \/ s[i].c = "merge") /\ ~s[i].ok
C32_FailureReplacesSummary ==
    [][(cmds' # cmds /\ CommandFailed(cmds'))
       => /\ info'.k \in FailureSummaries
          /\ \A i \in 1..Len(cmds') :
                (cmds'[i].c \in {"push", "pull", "merge"} /\ ~cmds'[i].ok)
                => info'.b = cmds'[i].a]_vars

\* C33: the startup scan is read-only on the repository's branches: its step
\* runs no push, pull or merge, leaves remote main, the remote's branches
\* and local main as they were (its fetch may refresh the remote-tracking
\* refs), and leaves the polling flag alone; it writes only the ahead-count
\* memory, the pending list and the display.
ScanStep == pc["s1"] = "scan" /\ pc'["s1"] = "dead"
C33_ScanIsReadOnly ==
    [][ScanStep
       => /\ rMain' = rMain /\ rBr' = rBr /\ lMain' = lMain /\ made' = made
          /\ tMain' \in {tMain, rMain}
          /\ \A n \in DOMAIN tBr' :
                \/ n \in DOMAIN tBr /\ tBr'[n] = tBr[n]
                \/ n \in DOMAIN rBr /\ tBr'[n] = rBr[n]
          /\ Actions(cmds') = Actions(cmds)
          /\ polling' = polling /\ lock' = lock]_vars
\* The scan has just reported one branch ahead, which a cycle would pull,
\* before any cycle ran.
C33_Witness ==
    /\ pc["s1"] = "dead" /\ cycles = 0
    /\ tag = "OneAhead"
    /\ \E n \in DOMAIN tBr : lcc = (n :> 1) /\ ~(tBr[n] \subseteq lMain)

\* C34: a cycle that classifies the branches to the end raises the
\* new-commit notification exactly when some tracked branch is ahead by more
\* than the count recorded for it (0 when none is recorded); after it the
\* memory holds the ahead count read for every branch that is ahead (0 for
\* the leader once it is pulled and fanned out); and whenever the display
\* turns to Idle the memory is empty.
Recorded(n) == IF n \in DOMAIN lcc THEN lcc[n] ELSE 0
Classifies(t) ==
    Completed(t) /\ SeenLocalAhead = 0 /\ Ran(Cmd("list", NoName, TRUE))'
C34_NotificationAndMemory ==
    [][/\ \A t \in SyncThreads :
             Classifies(t)
             => /\ beep' = (\E n \in DOMAIN tBr : SeenAhead(n) > Recorded(n))
                /\ (tag' # "Idle")
                   => \A n \in DOMAIN tBr :
                         SeenAhead(n) > 0
                         => /\ n \in DOMAIN lcc'
                            /\ lcc'[n] = IF tag' = "SyncOK" THEN 0
                                         ELSE SeenAhead(n)
       /\ (tag # "Idle" /\ tag' = "Idle") => lcc' = <<>>]_vars

\* C35: the application is torn down for a restart only when no
\* synchronization is in progress: at the step that tears it down the
\* repository's lock is free, whether a scheduled or a manual cycle held it
\* when the operator confirmed.
TornDown == appop # "restarted" /\ appop' = "restarted"
C35_RestartWaitsForSync ==
    [][TornDown => lock = ""]_vars

\* C36: the session state (state tag, pending list, ahead-count memory) is
\* written only by the task that holds the lock: a step taken while another
\* task holds the lock, the startup scan's in particular, leaves the three
\* as they are.
SessionWritten == tag' # tag \/ pending' # pending \/ lcc' # lcc
C36_StateWrittenUnderLock ==
    [][(lock # "" /\ lock' = lock /\ pc'[lock] = pc[lock])
       => ~SessionWritten]_vars

\* C37: every cycle ends with a terminal status: whenever no cycle is
\* running (no thread is between the start of a cycle and the release of
\* the lock), the displayed state is not the transient "Syncing", also
\* after a cycle in which the branch listing or a commits-ahead lookup
\* failed.
C37_NeverLeftSyncing ==
    (\A t \in SyncThreads : ~InOperation(t)) => tag # "Syncing"

\* C38: whenever the polling flag is on, a timer thread is alive: no failure
\* inside a cycle ends the timer thread and leaves the flag on.
C38_PollingMeansTimerAlive ==
    polling => \E t \in Timers : pc[t] # "dead"

\* C39: every push of main to a branch, every pull and every entry of the
\* pending list names a tracked branch that was listed, each push of a cycle
\* a different one, also when a branch name holds the remote's name again:
\* the short name of the ref <remote>/<name> is <name>.
PushTargets(s) == SelectSeq(s, LAMBDA c : c.c = "push")
C39_ShortNameIsBranchName ==
    [][\A t \in SyncThreads :
          Decided(t)
          => /\ \A i \in 1..Len(cmds') :
                   cmds'[i].c \in {"push", "pull"} => cmds'[i].a \in DOMAIN tBr
             /\ \A i \in 1..Len(pending') : pending'[i] \in DOMAIN tBr
             /\ \A i, j \in 1..Len(PushTargets(cmds')) :
                   i # j => PushTargets(cmds')[i].a # PushTargets(cmds')[j].a]_vars

\* C40: a cycle that fast-synced with every push succeeding leaves every
\* branch it found behind with nothing missing from remote main, and the
\* cycle that follows it with nothing changed outside ends Idle, also when
\* local main is itself behind remote main.
FastSynced == tag' = "SyncOK" /\ info'.k = "Behind"
C40_FastSyncCatchesUp ==
    [][\A t \in SyncThreads :
          /\ (Decided(t) /\ FastSynced)
             => \A i \in 1..Len(SeenBehindList) :
                   tMain' \ tBr'[SeenBehindList[i]] = {}
          /\ (/\ Decided(t)
              /\ ended.tag = "SyncOK" /\ ended.info = "Behind"
              /\ ended.clean /\ ended'.clean)
             => tag' = "Idle"]_vars
\* The same, for cycles that start with local main holding all of remote
\* main.
C40_WhenLocalMainCurrent ==
    [][\A t \in SyncThreads :
          tMain \subseteq lMain
          => /\ (Decided(t) /\ FastSynced)
                => \A i \in 1..Len(SeenBehindList) :
                      tMain' \ tBr'[SeenBehindList[i]] = {}
             /\ (/\ Decided(t)
                 /\ ended.tag = "SyncOK" /\ ended.info = "Behind"
                 /\ ended.clean /\ ended'.clean)
                => tag' = "Idle"]_vars
====
